---- MODULE Spec2Model ----
(***************************************************************************)
(* Timing model of the portfolio page's two choreographies:                *)
(*   - the Wordmark Reveal Sequencer, in its three implementations         *)
(*     ("vanilla": Web Animations + setTimeout, "gsap": GSAP timeline,     *)
(*     "react": framer-motion variants + setTimeout in an effect);         *)
(*   - the Content Disclosure Toggle with its Hint Indicator, in its three *)
(*     implementations ("react", "gsap", "vanilla").                       *)
(* Time is in milliseconds.  The browser's event loop is modelled as a set *)
(* of pending timed callbacks, fired one at a time in (due time, creation) *)
(* order; user calls (replay, click, key) happen between callbacks.        *)
(***************************************************************************)
EXTENDS Integers, Sequences, FiniteSets, TLC

\* ------------------------------------------------------------------ bounds
MaxLen == 2
MaxReplays == 1
MaxReruns == 1
UserGrid == 100

\* ------------------------------------------------- wordmark configuration
InitialDelay == 300
StaggerDelay == 150
CharDuration == 500
SettleDelay == 1000
CursorAppear == 200
ContainerFade == 300

\* option values given to the constructor: Absent stands for a key that is not
\* in the options object; the others are the numbers of the documented examples
Absent == -1
FasterStagger == 100
FasterDuration == 400

Impls == {"vanilla", "gsap", "react"}

VARIABLES
  impl,              \* which implementation of the sequencer is running
  textLen,           \* this.characters.length / characters.length
  options,           \* the options object given to the class-based constructor
  reducedMotion,     \* the user's prefers-reduced-motion setting
  now,               \* ms since construction / mount
  timers,            \* pending timed callbacks and timeline children
  nextId,            \* creation order of timers and animations
  gen,               \* how many times init() built the spans and the cursor
  charState,         \* visual state of the current character spans
  startCount,        \* reveal animations started on the current span i
  startAt,           \* instant of the last reveal start on the current span i
  cursorSlot,        \* DOM slot of this.cursor: k = before span k, N = at the end
  cursorOpacity,     \* 0 or 1: fill-forwards opacity of this.cursor
  retired,           \* the hide animation ran on the current caret
  retiredAt,         \* instant of the last retirement, -1 if none
  retireCount,       \* number of retirements of the current caret
  blinks,            \* running blink animations
  blinkAnimation,    \* this.blinkAnimation: id of the last blink created, 0 if none
  cursorIndex,       \* React state cursorIndex
  animationComplete, \* React state animationComplete
  exception,         \* an uncaught exception was thrown
  replays,           \* replay() calls so far
  effectRuns,        \* React: re-runs of the timer effect (characters.length changed)
  charRunFor,        \* duration given to the last reveal animation of span i, -1 if none
  orderBroken,       \* since the last init() / effect run: a visible caret moved to
                     \* a lower index, or a reveal started after one of a higher index
  lastReplayAt,      \* instant of the last replay(), -1 if none
  animateRuns,       \* animate() runs since the last init()
  staleEffect        \* a callback scheduled before the last replay() changed
                     \* a span's visual state, the caret position or its opacity

wvars == <<impl, textLen, options, reducedMotion, now, timers, nextId, gen,
           charState, startCount, startAt, charRunFor, cursorSlot, cursorOpacity,
           retired, retiredAt, retireCount, blinks, blinkAnimation, cursorIndex,
           animationComplete, exception, replays, effectRuns, lastReplayAt,
           animateRuns, staleEffect, orderBroken>>

\* what only a re-run of the React effect changes
wconf == <<impl, textLen, options, reducedMotion, effectRuns>>

\* ---------------------------------------------------------- constructor
\* options.x || default: an absent key and the value 0 both give the default.
\* The GSAP sequencer keeps its timing in seconds (defaults 0.3 / 0.15 / 0.5)
\* and hands it to setTimeout as initialDelay * 1000.
UnitMs == IF impl = "gsap" THEN 1000 ELSE 1

Configured(opt, default) ==
  IF opt = Absent \/ opt = 0 THEN default ELSE opt * UnitMs

\* this.initialDelay, this.staggerDelay, this.charDuration, in ms
initialDelay == Configured(options.initialDelay, InitialDelay)
staggerDelay == Configured(options.staggerDelay, StaggerDelay)
charDuration == Configured(options.charDuration, CharDuration)

NoOptions == [initialDelay |-> Absent, staggerDelay |-> Absent, charDuration |-> Absent]

Options ==
  [initialDelay : {Absent, 0},
   staggerDelay : {Absent, 0, FasterStagger},
   charDuration : {Absent, 0, FasterDuration}]

\* -------------------------------------------------------- timer machinery
Timer(id, at, kind, idx) ==
  [id |-> id, at |-> at, kind |-> kind, idx |-> idx, gen |-> gen, epoch |-> replays]

Due == {t \in timers : t.at <= now}

Quiescent == Due = {}

NextTimer ==
  CHOOSE t \in Due : \A u \in Due : t.at < u.at \/ (t.at = u.at /\ t.id <= u.id)

MinAt == CHOOSE a \in {t.at : t \in timers} : \A t \in timers : a <= t.at

NextGrid == ((now \div UserGrid) + 1) * UserGrid

Min(a, b) == IF a <= b THEN a ELSE b

Indices == 0 .. (textLen - 1)

\* ----------------------------------------------------- pure timing helpers
\* delay of character index's reveal, counted from animate()
CharDelayOff(index) == (index + 1) * staggerDelay
CharDelay(index) == index * staggerDelay

\* delay of the caret's hide, counted from animate()
HideTimeOff(n) == ((n - 1) * staggerDelay) + charDuration + SettleDelay
HideTime(n) == (n * staggerDelay) + charDuration + SettleDelay

\* React: instant of setCursorIndex(index), counted from the effect
RevealTime(index) == InitialDelay + (index * StaggerDelay)

\* React: totalAnimationTime, counted from the effect
TotalAnimationTime(n) == InitialDelay + (n * StaggerDelay) + CharDuration

\* React: transition.delay of characterVariants.visible(i), counted from the
\* instant the children are told to animate
VariantDelay(i) == InitialDelay + (i * StaggerDelay)

\* slot of the caret once character charIndex is revealed
UpdateCursorPositionOff(charIndex) == charIndex
UpdateCursorPosition(charIndex) == charIndex + 1

\* ------------------------------------------------------------ caret view
BeforeFirst == [kind |-> "at", idx |-> -1]
After(i) == [kind |-> "at", idx |-> i]
RetiredCaret == [kind |-> "retired", idx |-> -1]
HiddenCaret == [kind |-> "hidden", idx |-> -1]
NoCaret == [kind |-> "none", idx |-> -1]

CaretView ==
  IF impl = "react"
  THEN IF textLen = 0 THEN NoCaret
       ELSE IF cursorIndex >= textLen THEN RetiredCaret
       ELSE After(cursorIndex)
  ELSE IF retired THEN RetiredCaret
       ELSE IF cursorOpacity = 0 THEN HiddenCaret
       ELSE After(cursorSlot - 1)

\* --------------------------------------------------------------- init()
\* state of the spans and of the caret right after init()
HiddenChars == [i \in Indices |-> "hidden"]
ZeroCounts == [i \in Indices |-> 0]
NoStarts == [i \in Indices |-> -1]

\* the timers created by the React effect and by the mount animation
EffectTimers ==
  {[id |-> i + 1, at |-> RevealTime(i), kind |-> "cursor", idx |-> i,
    gen |-> 1, epoch |-> 0] : i \in Indices}
  \cup {[id |-> textLen + 1, at |-> TotalAnimationTime(textLen), kind |-> "complete",
         idx |-> textLen, gen |-> 1, epoch |-> 0]}
  \cup {[id |-> textLen + 2, at |-> ContainerFade, kind |-> "containerDone",
         idx |-> -1, gen |-> 1, epoch |-> 0]}

NoDurations == [i \in Indices |-> -1]

WInit ==
  /\ impl \in Impls
  /\ textLen \in 0 .. MaxLen
  /\ options \in (IF impl = "react" THEN {NoOptions} ELSE Options)
  /\ reducedMotion \in BOOLEAN
  /\ effectRuns = 0
  /\ charRunFor = NoDurations
  /\ orderBroken = FALSE
  /\ now = 0
  /\ gen = 1
  /\ charState = HiddenChars
  /\ startCount = ZeroCounts
  /\ startAt = NoStarts
  /\ cursorSlot = textLen
  /\ cursorOpacity = 0
  /\ retired = FALSE
  /\ retiredAt = -1
  /\ retireCount = 0
  /\ blinks = {}
  /\ blinkAnimation = 0
  /\ cursorIndex = -1
  /\ animationComplete = FALSE
  /\ exception = FALSE
  /\ replays = 0
  /\ lastReplayAt = -1
  /\ animateRuns = 0
  /\ staleEffect = FALSE
  /\ timers = IF impl = "react"
              THEN EffectTimers
              ELSE {[id |-> 1, at |-> initialDelay, kind |-> "animate", idx |-> -1,
                     gen |-> 1, epoch |-> 0]}
  /\ nextId = IF impl = "react" THEN textLen + 3 ELSE 2


\* ------------------------------------------------- toggle state (see below)
VARIABLES
  timpl,               \* which implementation of the toggle is running
  itemCount,           \* number of list items (listItems.length / disciplines.length)
  missing,             \* the element querySelector did not find: "none", "overlay",
                       \* "main" or "hint"
  mounted,             \* React: the ContentReveal component is mounted
  tnow,                \* ms since the controller was constructed / mounted
  ttimers,             \* pending timed callbacks, timeline children, animation starts and ends
  tnextId,             \* creation order of timers and animations
  isRevealed,          \* DisclosureState: TRUE = Expanded
  animationInProgress, \* the re-entrancy guard of the class-based controllers
  listening,           \* number of click/keydown listener pairs registered
  showHint,            \* React state showHint
  capturedHint,        \* showHint as seen by the registered keydown handler's closure
  hintVisible,         \* class-based: this.tapHint is at opacity 0.4
  mainOpacity,         \* primary view: 1 = opacity 1 / scale 1, 0 = opacity 0 / scale 0.95
  overlayVisible,      \* secondary panel shown
  itemOpacity,         \* opacity of each list item
  isContentRevealed,   \* App state set through onToggle
  texception,          \* a handler or callback of the toggle threw
  mainStartAt,         \* instant the last animation of the primary view started, -1 if none
  panelAt,             \* instant the panel was last shown or hidden, -1 if never
  itemStartAt,         \* instant the last animation of list item i started, -1 if none
  hintTimerAt,         \* instant the 2500 ms timer's callback ran, -1 if not yet
  hintTimerOk,         \* just after that callback: hint shown <=> toggle Collapsed
  activations,         \* user activations (click, Space, Enter) so far
  stateChanges,        \* changes of isRevealed so far
  lastAcceptedAt,      \* instant of the last activation that started a transition, -1 if none
  lastWasExpand,       \* that transition was an expand
  cleanStart,          \* nothing of an earlier transition was pending when it started
  lastGap,             \* last activation: ms since the previous accepted one, -1 if none
  gapWasExpand,        \* last activation: the previous accepted one was an expand
  lastChanged          \* last activation changed isRevealed, the hint or the timers

tvars == <<timpl, itemCount, missing, mounted, tnow, ttimers, tnextId, isRevealed,
           animationInProgress, listening, showHint, capturedHint, hintVisible,
           mainOpacity, overlayVisible, itemOpacity, isContentRevealed, texception,
           mainStartAt, panelAt, itemStartAt, hintTimerAt, hintTimerOk,
           activations, stateChanges, lastAcceptedAt, lastWasExpand, cleanStart,
           lastGap, gapWasExpand, lastChanged>>

vars == <<wvars, tvars>>

\* -------------------------------------------------- wordmark: time passes
Tick ==
  /\ timers # {}
  /\ Quiescent
  /\ now' = Min(MinAt, NextGrid)
  /\ UNCHANGED <<wconf, timers, nextId, gen, charState, startCount, startAt, charRunFor, orderBroken,
                 cursorSlot, cursorOpacity, retired, retiredAt, retireCount, blinks,
                 blinkAnimation, cursorIndex, animationComplete, exception, replays,
                 lastReplayAt, animateRuns, staleEffect>>
  /\ UNCHANGED tvars

\* ------------------------------------------------------------- animate()
\* what animate() schedules: the blink start, one reveal per character (the
\* callback / tween keeps the span it was created for), the caret's hide
AnimateTimers ==
  {Timer(nextId, now + CursorAppear, "blinkStart", -1)}
  \cup {Timer(nextId + 1 + i, now + CharDelay(i), "reveal", i) : i \in Indices}
  \cup (IF impl = "gsap"
        THEN {Timer(nextId + 1 + textLen, now + HideTime(textLen), "stopBlink", -1),
              Timer(nextId + 2 + textLen, now + HideTime(textLen), "cursorFade", -1)}
        ELSE {Timer(nextId + 1 + textLen, now + HideTime(textLen), "hide", -1)})

FireAnimate ==
  /\ ~Quiescent
  /\ NextTimer.kind = "animate"
  /\ LET t == NextTimer IN
       IF textLen = 0
       THEN \* this.characters[0] is undefined: reading .element throws
            /\ exception' = TRUE
            /\ timers' = timers \ {t}
            /\ UNCHANGED <<nextId, cursorSlot, cursorOpacity, retired, animateRuns,
                           staleEffect, orderBroken>>
       ELSE /\ cursorSlot' = 0
            /\ cursorOpacity' = 1
            /\ retired' = FALSE
            /\ timers' = (timers \ {t}) \cup AnimateTimers
            /\ nextId' = nextId + textLen + 3
            /\ animateRuns' = animateRuns + 1
            /\ staleEffect' = (staleEffect \/ t.epoch < replays)
            /\ orderBroken' = (orderBroken \/ (cursorOpacity = 1 /\ cursorSlot > 0))
            /\ UNCHANGED exception
  /\ UNCHANGED <<wconf, now, gen, charState, startCount, startAt, charRunFor, retiredAt,
                 retireCount, blinks, blinkAnimation, cursorIndex, animationComplete,
                 replays, lastReplayAt>>
  /\ UNCHANGED tvars

\* ------------------------------------------- startCursorBlink / stopCursorBlink
\* The caret element shows. vanilla: the animation created last on the element
\* decides (the appear and hide animations fill forwards, a blink has its own
\* keyframes 1, 0, 1). gsap: a live blink tween keeps writing the opacity
\* between 0 and the value it started from.
CaretLit ==
  LET live == {b \in blinks : b.gen = gen}
      last == CHOOSE b \in live : \A c \in live : c.id <= b.id
  IN  IF impl = "gsap"
      THEN IF live = {} THEN cursorOpacity = 1 ELSE last.from
      ELSE cursorOpacity = 1 \/ \E b \in live : b.at > retiredAt

\* number of carets the page shows
VisibleCarets ==
  IF impl = "react"
  THEN Cardinality({i \in Indices : (i = 0 /\ cursorIndex = -1) \/ cursorIndex = i})
  ELSE IF CaretLit THEN 1 ELSE 0

StartedBlinks ==
  blinks \cup {[id |-> nextId, gen |-> gen, from |-> CaretLit, at |-> now]}
StoppedBlinksOff == blinks
StoppedBlinks == {b \in blinks : b.id # blinkAnimation}

FireBlinkStart ==
  /\ ~Quiescent
  /\ NextTimer.kind = "blinkStart"
  /\ timers' = timers \ {NextTimer}
  /\ blinks' = StartedBlinks
  /\ blinkAnimation' = nextId
  /\ nextId' = nextId + 1
  /\ UNCHANGED <<wconf, now, gen, charState, startCount, startAt, charRunFor, orderBroken, cursorSlot,
                 cursorOpacity, retired, retiredAt, retireCount, cursorIndex,
                 animationComplete, exception, replays, lastReplayAt, animateRuns,
                 staleEffect>>
  /\ UNCHANGED tvars

\* ------------------------------------------------ a character's reveal starts
\* The animation runs on the span the callback / tween was created for; the
\* caret that moves is this.cursor, whatever it is when the callback runs.
FireReveal ==
  /\ ~Quiescent
  /\ NextTimer.kind = "reveal"
  /\ LET t == NextTimer
         onCurrent == t.gen = gen
     IN /\ timers' = timers \ {t}
        /\ charState' = IF onCurrent THEN [charState EXCEPT ![t.idx] = "revealed"]
                        ELSE charState
        /\ startCount' = IF onCurrent THEN [startCount EXCEPT ![t.idx] = @ + 1]
                         ELSE startCount
        /\ startAt' = IF onCurrent THEN [startAt EXCEPT ![t.idx] = now] ELSE startAt
        \* class-based: duration: this.charDuration; React: a spring, no duration
        /\ charRunFor' = IF onCurrent /\ impl # "react"
                         THEN [charRunFor EXCEPT ![t.idx] = charDuration]
                         ELSE charRunFor
        /\ orderBroken' = (orderBroken
                             \/ (impl # "react" /\ cursorOpacity = 1
                                   /\ UpdateCursorPosition(t.idx) < cursorSlot)
                             \/ (onCurrent /\ \E j \in Indices :
                                                 j > t.idx /\ startCount[j] > 0))
        /\ cursorSlot' = IF impl = "react" THEN cursorSlot
                         ELSE UpdateCursorPosition(t.idx)
        /\ staleEffect' = (staleEffect \/
                             (t.epoch < replays /\ cursorSlot' # cursorSlot))
  /\ UNCHANGED <<wconf, now, nextId, gen, cursorOpacity, retired, retiredAt,
                 retireCount, blinks, blinkAnimation, cursorIndex, animationComplete,
                 exception, replays, lastReplayAt, animateRuns>>
  /\ UNCHANGED tvars

\* --------------------------------------------------------- the caret's hide
\* vanilla: one callback stops the blink and fades this.cursor out
FireHide ==
  /\ ~Quiescent
  /\ NextTimer.kind = "hide"
  /\ timers' = timers \ {NextTimer}
  /\ blinks' = StoppedBlinks
  /\ cursorOpacity' = 0
  /\ retired' = TRUE
  /\ retiredAt' = now
  /\ retireCount' = retireCount + 1
  /\ staleEffect' = (staleEffect \/ (NextTimer.epoch < replays /\ cursorOpacity = 1))
  /\ UNCHANGED <<wconf, now, nextId, gen, charState, startCount, startAt, charRunFor, orderBroken,
                 cursorSlot, blinkAnimation, cursorIndex, animationComplete, exception,
                 replays, lastReplayAt, animateRuns>>
  /\ UNCHANGED tvars

\* gsap: a timeline callback stops the blink ...
FireStopBlink ==
  /\ ~Quiescent
  /\ NextTimer.kind = "stopBlink"
  /\ timers' = timers \ {NextTimer}
  /\ blinks' = StoppedBlinks
  /\ UNCHANGED <<wconf, now, nextId, gen, charState, startCount, startAt, charRunFor, orderBroken,
                 cursorSlot, cursorOpacity, retired, retiredAt, retireCount,
                 blinkAnimation, cursorIndex, animationComplete, exception, replays,
                 lastReplayAt, animateRuns, staleEffect>>
  /\ UNCHANGED tvars

\* ... and a tween fades out the cursor element it was created for
FireCursorFade ==
  /\ ~Quiescent
  /\ NextTimer.kind = "cursorFade"
  /\ timers' = timers \ {NextTimer}
  /\ IF NextTimer.gen = gen
     THEN /\ cursorOpacity' = 0
          /\ retired' = TRUE
          /\ retiredAt' = now
          /\ retireCount' = retireCount + 1
     ELSE UNCHANGED <<cursorOpacity, retired, retiredAt, retireCount>>
  /\ UNCHANGED <<wconf, now, nextId, gen, charState, startCount, startAt, charRunFor, orderBroken,
                 cursorSlot, blinks, blinkAnimation, cursorIndex, animationComplete,
                 exception, replays, lastReplayAt, animateRuns, staleEffect>>
  /\ UNCHANGED tvars


\* ------------------------------------------------ React: the effect's timers
FireCursor ==
  /\ ~Quiescent
  /\ NextTimer.kind = "cursor"
  /\ timers' = timers \ {NextTimer}
  /\ cursorIndex' = NextTimer.idx
  /\ staleEffect' = (staleEffect \/ NextTimer.epoch < effectRuns)
  /\ orderBroken' = (orderBroken \/ NextTimer.idx < cursorIndex)
  /\ UNCHANGED <<wconf, now, nextId, gen, charState, startCount, startAt, charRunFor,
                 cursorSlot, cursorOpacity, retired, retiredAt, retireCount, blinks,
                 blinkAnimation, animationComplete, exception, replays, lastReplayAt,
                 animateRuns>>
  /\ UNCHANGED tvars

FireComplete ==
  /\ ~Quiescent
  /\ NextTimer.kind = "complete"
  /\ animationComplete' = TRUE
  \* the nested timer belongs to the same effect run and closes over the same
  \* characters.length
  /\ timers' = (timers \ {NextTimer})
                 \cup {[Timer(nextId, now + SettleDelay, "retire", NextTimer.idx)
                          EXCEPT !.epoch = NextTimer.epoch]}
  /\ nextId' = nextId + 1
  /\ staleEffect' = (staleEffect \/ NextTimer.epoch < effectRuns)
  /\ UNCHANGED <<wconf, now, gen, charState, startCount, startAt, charRunFor, orderBroken, cursorSlot,
                 cursorOpacity, retired, retiredAt, retireCount, blinks, blinkAnimation,
                 cursorIndex, exception, replays, lastReplayAt, animateRuns>>
  /\ UNCHANGED tvars

\* setCursorIndex(characters.length), with the length the effect run closed
\* over: no fragment renders the caret any more once that is the current length
FireRetire ==
  /\ ~Quiescent
  /\ NextTimer.kind = "retire"
  /\ timers' = timers \ {NextTimer}
  /\ cursorIndex' = NextTimer.idx
  /\ IF NextTimer.idx >= textLen
     THEN /\ retiredAt' = now
          /\ retireCount' = retireCount + 1
     ELSE UNCHANGED <<retiredAt, retireCount>>
  /\ staleEffect' = (staleEffect \/ NextTimer.epoch < effectRuns)
  /\ orderBroken' = (orderBroken \/ NextTimer.idx < cursorIndex)
  /\ UNCHANGED <<wconf, now, nextId, gen, charState, startCount, startAt, charRunFor,
                 cursorSlot, cursorOpacity, retired, blinks, blinkAnimation,
                 animationComplete, exception, replays, lastReplayAt, animateRuns>>
  /\ UNCHANGED tvars

\* React: the container's "visible" transition (when: "beforeChildren") is over;
\* only now are the character spans told to animate to "visible", each with the
\* delay of characterVariants.visible(i)
FireContainerDone ==
  /\ ~Quiescent
  /\ NextTimer.kind = "containerDone"
  /\ timers' = (timers \ {NextTimer})
                 \cup {Timer(nextId + i, now + VariantDelay(i), "reveal", i) : i \in Indices}
  /\ nextId' = nextId + textLen
  /\ UNCHANGED <<wconf, now, gen, charState, startCount, startAt, charRunFor, orderBroken, cursorSlot,
                 cursorOpacity, retired, retiredAt, retireCount, blinks, blinkAnimation,
                 cursorIndex, animationComplete, exception, replays, lastReplayAt,
                 animateRuns, staleEffect>>
  /\ UNCHANGED tvars

\* --------------------------------------------------------------- replay()
\* gsap.killTweensOf([element, ...spans, cursor]): the tweens of the current
\* spans and cursor are removed; timeline callbacks and setTimeout are not
KillTweensOf(ts) ==
  IF impl = "gsap"
  THEN {t \in ts : ~(t.kind \in {"reveal", "cursorFade"} /\ t.gen = gen)}
  ELSE ts

KillBlinksOf(bs) == IF impl = "gsap" THEN {b \in bs : b.gen # gen} ELSE bs

Replay ==
  /\ impl # "react"
  /\ replays < MaxReplays
  /\ Quiescent
  /\ replays' = replays + 1
  /\ lastReplayAt' = now
  /\ blinks' = KillBlinksOf(StoppedBlinks)
  /\ timers' = KillTweensOf(timers)
                 \cup {[id |-> nextId, at |-> now + initialDelay, kind |-> "animate",
                        idx |-> -1, gen |-> gen + 1, epoch |-> replays + 1]}
  /\ nextId' = nextId + 1
  /\ gen' = gen + 1
  /\ charState' = HiddenChars
  /\ startCount' = ZeroCounts
  /\ startAt' = NoStarts
  /\ charRunFor' = NoDurations
  /\ orderBroken' = FALSE
  /\ cursorSlot' = textLen
  /\ cursorOpacity' = 0
  /\ retired' = FALSE
  /\ retiredAt' = -1
  /\ retireCount' = 0
  /\ animateRuns' = 0
  /\ UNCHANGED <<wconf, now, blinkAnimation, cursorIndex, animationComplete,
                 exception, staleEffect>>
  /\ UNCHANGED tvars

\* ------------------------------------- React: the text prop changes its length
\* The effect's dependency is characters.length: the effect runs again. Its
\* cleanup function is empty, so the timers of the earlier run stay pending.
Resized(f, n, fresh) == [i \in 0 .. (n - 1) |-> IF i < textLen THEN f[i] ELSE fresh]

RerunTimers(n) ==
  {[id |-> nextId + i, at |-> now + RevealTime(i), kind |-> "cursor", idx |-> i,
    gen |-> gen, epoch |-> effectRuns + 1] : i \in 0 .. (n - 1)}
  \cup {[id |-> nextId + n, at |-> now + TotalAnimationTime(n), kind |-> "complete",
         idx |-> n, gen |-> gen, epoch |-> effectRuns + 1]}

\* spans are keyed by character and index: those below the old length stay as
\* they are, those beyond the new length unmount with their animation, and a
\* new span animates from "hidden" to "visible" with its own delay (at once if
\* the container has finished, with the others if it has not)
MountTimers(n) ==
  IF \E t \in timers : t.kind = "containerDone"
  THEN {}
  ELSE {[id |-> nextId + n + 1 + i, at |-> now + VariantDelay(i), kind |-> "reveal",
         idx |-> i, gen |-> gen, epoch |-> effectRuns + 1] : i \in textLen .. (n - 1)}

EffectRerun ==
  /\ impl = "react"
  /\ effectRuns < MaxReruns
  /\ Quiescent
  /\ \E n \in (0 .. MaxLen) \ {textLen} :
       /\ textLen' = n
       /\ timers' = {t \in timers : ~(t.kind = "reveal" /\ t.idx >= n)}
                      \cup RerunTimers(n) \cup MountTimers(n)
       /\ nextId' = nextId + (2 * n) + 1
       /\ charState' = Resized(charState, n, "hidden")
       /\ startCount' = Resized(startCount, n, 0)
       /\ startAt' = Resized(startAt, n, -1)
       /\ charRunFor' = Resized(charRunFor, n, -1)
       /\ cursorSlot' = n
  /\ effectRuns' = effectRuns + 1
  /\ cursorIndex' = -1
  /\ orderBroken' = FALSE
  /\ UNCHANGED <<impl, options, reducedMotion, now, gen, cursorOpacity, retired,
                 retiredAt, retireCount, blinks, blinkAnimation, animationComplete,
                 exception, replays, lastReplayAt, animateRuns, staleEffect>>
  /\ UNCHANGED tvars

\* time passes up to the next pending callback (no user on the page)
RunToNextTimer ==
  /\ timers # {}
  /\ Quiescent
  /\ now' = MinAt
  /\ UNCHANGED <<wconf, timers, nextId, gen, charState, startCount, startAt,
                 charRunFor, orderBroken, cursorSlot, cursorOpacity, retired, retiredAt,
                 retireCount, blinks, blinkAnimation, cursorIndex, animationComplete,
                 exception, replays, lastReplayAt, animateRuns, staleEffect>>
  /\ UNCHANGED tvars

\* the sequencer left alone: no replay(), no change of the text
CNext ==
  \/ RunToNextTimer
  \/ FireAnimate
  \/ FireBlinkStart
  \/ FireReveal
  \/ FireHide
  \/ FireStopBlink
  \/ FireCursorFade
  \/ FireCursor
  \/ FireComplete
  \/ FireRetire
  \/ FireContainerDone

WNext ==
  \/ Tick
  \/ FireAnimate
  \/ FireBlinkStart
  \/ FireReveal
  \/ FireHide
  \/ FireStopBlink
  \/ FireCursorFade
  \/ FireCursor
  \/ FireComplete
  \/ FireRetire
  \/ FireContainerDone
  \/ Replay
  \/ EffectRerun

\* ================================================= Content Disclosure Toggle
MaxActivations == 3
MaxItems == 3

ItemCount == 3
Items == 0 .. (itemCount - 1)
HintDelay == 2500
MainDuration == 400
OverlayDelay == 200
ContentDelay == 400
ItemDelay == 200
ItemStagger == 60
ItemDuration == 400
HideStagger == 20
HideItemDuration == 300
HideOverlayDelay == 400
ShowHintDelay == 600
OverlayFade == 600
OverlayExit == 400

\* the elements the class-based constructor looks up with querySelector
Elements == {"overlay", "main", "hint"}

TInit ==
  /\ timpl \in Impls
  /\ itemCount \in (IF timpl = "react" THEN {ItemCount} ELSE 1 .. MaxItems)
  /\ missing \in (IF timpl = "react" THEN {"none"} ELSE Elements \cup {"none"})
  /\ mounted = TRUE
  /\ tnow = 0
  /\ ttimers = {[id |-> 1, at |-> HintDelay,
                 kind |-> IF timpl = "react" THEN "hint" ELSE "enable",
                 idx |-> -1, to |-> 1]}
  /\ tnextId = 2
  /\ isRevealed = FALSE
  /\ animationInProgress = FALSE
  /\ listening = IF timpl = "react" THEN 1 ELSE 0
  /\ showHint = FALSE
  /\ capturedHint = FALSE
  /\ hintVisible = FALSE
  /\ mainOpacity = 1
  /\ overlayVisible = FALSE
  /\ itemOpacity = [i \in Items |-> 0]
  /\ isContentRevealed = FALSE
  /\ texception = FALSE
  /\ mainStartAt = -1
  /\ panelAt = -1
  /\ itemStartAt = [i \in Items |-> -1]
  /\ hintTimerAt = -1
  /\ hintTimerOk = TRUE
  /\ activations = 0
  /\ stateChanges = 0
  /\ lastAcceptedAt = -1
  /\ lastWasExpand = FALSE
  /\ cleanStart = TRUE
  /\ lastGap = -1
  /\ gapWasExpand = FALSE
  /\ lastChanged = FALSE

\* the wordmark on its own, constructed without options: the toggle is the
\* mounted, untouched React one
InitWordmark ==
  WInit /\ TInit /\ timpl = "react" /\ options = NoOptions /\ reducedMotion = FALSE

SpecWordmark == InitWordmark /\ [][WNext]_vars

\* the wordmark constructed with any of the options, under either setting of
\* prefers-reduced-motion, and then left alone
InitConfig == WInit /\ TInit /\ timpl = "react"

SpecConfig == InitConfig /\ [][CNext]_vars

\* a pending timer callback is run by the event loop once it is due, and time
\* does not stop before the next pending callback
SpecConfigFair == InitConfig /\ [][CNext]_vars /\ WF_vars(CNext)


\* --------------------------------------------------- toggle: timer machinery
TT(id, at, kind, idx, to) == [id |-> id, at |-> at, kind |-> kind, idx |-> idx, to |-> to]

TDue == {t \in ttimers : t.at <= tnow}

TQuiescent == TDue = {}

TNextTimer ==
  CHOOSE t \in TDue : \A u \in TDue : t.at < u.at \/ (t.at = u.at /\ t.id <= u.id)

TMinAt == CHOOSE a \in {t.at : t \in ttimers} : \A t \in ttimers : a <= t.at

TNextGrid == ((tnow \div UserGrid) + 1) * UserGrid

Max(a, b) == IF a >= b THEN a ELSE b

AnimKinds == {"mainEnd", "itemStart", "itemEnd", "overlayEnd"}

\* sub-animations and callbacks of a choreography that are pending or running
Choreography == {t \in ttimers : t.kind \notin {"hint", "enable"}}

tconf == <<timpl, itemCount, missing, mounted>>
thist == <<activations, stateChanges, lastAcceptedAt, lastWasExpand, cleanStart,
           lastGap, gapWasExpand, lastChanged>>
tview == <<mainOpacity, overlayVisible, itemOpacity>>
tstarts == <<mainStartAt, panelAt, itemStartAt>>
thint == <<hintTimerAt, hintTimerOk>>

\* ------------------------------------------------------- toggle: pure timing
\* start and end of item i's reveal, counted from animateContentIn()
ItemRevealStart(i) == ItemDelay + (i * ItemStagger)
ItemRevealEnd(i) == ItemDelay + (i * ItemStagger) + ItemDuration

\* start and end of item i's retreat, counted from hideContent()
ItemHideStart(i) == i * HideStagger
ItemHideEnd(i) == (i * HideStagger) + HideItemDuration

\* vanilla: delay of the timer that clears the guard, counted from animateContentIn()
ContentInDone == (ItemDelay + ((itemCount - 1) * ItemStagger)) + ItemDuration

\* gsap: a timeline completes when its last child ends
RevealTimelineEnd == Max(MainDuration, Max(OverlayDelay, ContentDelay))
HideTimelineEndOff == HideOverlayDelay
HideTimelineEnd ==
  Max(ItemHideEnd(itemCount - 1),
      Max(HideOverlayDelay, Max(HideOverlayDelay + MainDuration, ShowHintDelay)))

\* class-based: ms from an accepted activation to the instant its transition
\* clears animationInProgress
\*   vanilla expand:   the timer of animateContentIn(), itself called after 200 ms
\*   vanilla collapse: the 400 ms timer of hideContent()
\*   gsap:             onComplete of the timeline
GuardClearsAfter(variant, expand) ==
  IF variant = "vanilla"
  THEN IF expand THEN OverlayDelay + ContentInDone ELSE HideOverlayDelay
  ELSE IF expand THEN RevealTimelineEnd ELSE HideTimelineEnd

\* one animation per list item, towards opacity to: its start and its end
ItemTimers(base, to) ==
  UNION {{TT(base + (2 * i),
             tnow + (IF to = 1 THEN ItemRevealStart(i) ELSE ItemHideStart(i)),
             "itemStart", i, to),
          TT(base + (2 * i) + 1,
             tnow + (IF to = 1 THEN ItemRevealEnd(i) ELSE ItemHideEnd(i)),
             "itemEnd", i, to)} : i \in Items}

\* ------------------------------------------------------- the hint indicator
\* React: the render condition of the tap hint
HintRenderedOff(sh, rev) == sh
HintRendered(sh, rev) == sh /\ ~rev

\* the Hint Indicator is on screen (or fading in)
HintShown == IF timpl = "react" THEN HintRendered(showHint, isRevealed) ELSE hintVisible

\* showTapHint(): guarded by if (this.tapHint)
ShowTapHint == missing # "hint"

\* --------------------------------------- revealContent() / hideContent()
RevealTimersOff == {}
RevealTimers ==
  IF timpl = "vanilla"
  THEN {TT(tnextId, tnow + MainDuration, "mainEnd", -1, 0),
        TT(tnextId + 1, tnow + OverlayDelay, "showOverlay", -1, 1)}
  ELSE IF timpl = "gsap"
  THEN {TT(tnextId, tnow + MainDuration, "mainEnd", -1, 0),
        TT(tnextId + 1, tnow + OverlayDelay, "showOverlay", -1, 1),
        TT(tnextId + 2, tnow + ContentDelay, "contentIn", -1, 1),
        TT(tnextId + 3, tnow + RevealTimelineEnd, "tlComplete", -1, 1)}
  ELSE {TT(tnextId, tnow + MainDuration, "mainEnd", -1, 0),
        TT(tnextId + 1, tnow + OverlayFade, "overlayEnd", -1, 1)}
       \cup ItemTimers(tnextId + 2, 1)

HideTimers ==
  ItemTimers(tnextId, 0)
  \cup (IF timpl = "vanilla"
        THEN {TT(tnextId + (2 * itemCount), tnow + HideOverlayDelay, "hideOverlay", -1, 0)}
        ELSE IF timpl = "gsap"
        THEN {TT(tnextId + (2 * itemCount), tnow + HideOverlayDelay, "hideOverlay", -1, 0),
              TT(tnextId + (2 * itemCount) + 1, tnow + HideOverlayDelay + MainDuration,
                 "mainEnd", -1, 1),
              TT(tnextId + (2 * itemCount) + 2, tnow + ShowHintDelay, "showHint", -1, 1),
              TT(tnextId + (2 * itemCount) + 3, tnow + HideTimelineEnd, "tlComplete", -1, 1)}
        ELSE {TT(tnextId + (2 * itemCount), tnow + MainDuration, "mainEnd", -1, 1),
              TT(tnextId + (2 * itemCount) + 1, tnow + OverlayExit, "overlayEnd", -1, 0)})

\* the handler lets the activation through to toggleContent()
GuardOpenOff == timpl = "react" \/ ~animationInProgress
GuardOpen == listening > 0 /\ (timpl = "react" \/ ~animationInProgress)

\* React: the cleanup of the keydown effect, document.removeEventListener with
\* the handler the effect's run had added
KeydownCleanupOff(n) == n
KeydownCleanup(n) == n - 1

\* React: isRevealed is the effect's dependency, so after every toggle the
\* cleanup of the earlier run is called and the effect adds a handler again
KeydownEffect(n) == KeydownCleanup(n) + 1

\* React: what toggleContent hands to onToggle
OnToggleArgOff == isRevealed
OnToggleArg == ~isRevealed

\* React: showHint after toggleContent(); the keydown handler registered by the
\* effect with deps [isRevealed] runs the toggleContent of the render it was
\* created in, and reads that render's showHint
NextShowHint(viaKey) ==
  IF (IF viaKey THEN capturedHint ELSE showHint) THEN FALSE ELSE showHint

\* class-based: the statement of revealContent() / hideContent() that throws a
\* TypeError on a null element before anything is scheduled
\*   vanilla revealContent: this.main.animate(...)
\*   hideContent:           this.overlay.querySelectorAll(...)
ThrowsAtOnce ==
  IF isRevealed THEN missing = "overlay"
  ELSE timpl = "vanilla" /\ missing = "main"

\* toggleContent(), reached from the click handler (viaKey = FALSE) or from the
\* keydown handler for Space / Enter (viaKey = TRUE)
ToggleContent(viaKey) ==
  /\ isRevealed' = ~isRevealed
  /\ stateChanges' = stateChanges + 1
  /\ lastAcceptedAt' = tnow
  /\ lastWasExpand' = ~isRevealed
  /\ cleanStart' = (Choreography = {})
  /\ lastChanged' = TRUE
  /\ tnextId' = tnextId + (2 * itemCount) + 4
  /\ IF timpl = "react"
     THEN /\ isContentRevealed' = OnToggleArg
          /\ showHint' = NextShowHint(viaKey)
          /\ capturedHint' = showHint'
          /\ overlayVisible' = (overlayVisible \/ ~isRevealed)
          /\ panelAt' = IF ~isRevealed /\ ~overlayVisible THEN tnow ELSE panelAt
          /\ mainStartAt' = tnow
          /\ ttimers' = {t \in ttimers : t.kind \notin AnimKinds}
                          \cup (IF isRevealed THEN HideTimers ELSE RevealTimers)
          /\ UNCHANGED <<animationInProgress, hintVisible, mainOpacity, itemOpacity,
                         texception>>
     ELSE /\ animationInProgress' = TRUE
          /\ hintVisible' = IF isRevealed THEN hintVisible ELSE FALSE
          /\ IF ThrowsAtOnce
             THEN /\ texception' = TRUE
                  /\ UNCHANGED <<ttimers, mainStartAt>>
             ELSE /\ ttimers' = ttimers \cup (IF isRevealed THEN HideTimers
                                              ELSE RevealTimers)
                  /\ mainStartAt' = IF ~isRevealed /\ missing # "main"
                                    THEN tnow ELSE mainStartAt
                  /\ UNCHANGED texception
          /\ UNCHANGED <<isContentRevealed, showHint, capturedHint, mainOpacity,
                         overlayVisible, itemOpacity, panelAt>>

HandleActivation(viaKey) ==
  /\ activations' = activations + 1
  /\ lastGap' = IF lastAcceptedAt < 0 THEN -1 ELSE tnow - lastAcceptedAt
  /\ gapWasExpand' = lastWasExpand
  /\ IF GuardOpen
     THEN ToggleContent(viaKey)
     ELSE /\ lastChanged' = FALSE
          /\ UNCHANGED <<ttimers, tnextId, isRevealed, animationInProgress, showHint,
                         capturedHint, hintVisible, mainOpacity, overlayVisible,
                         itemOpacity, isContentRevealed, texception, mainStartAt,
                         panelAt, stateChanges, lastAcceptedAt, lastWasExpand,
                         cleanStart>>
  /\ listening' = IF timpl = "react" /\ GuardOpen THEN KeydownEffect(listening)
                  ELSE listening
  /\ UNCHANGED <<tconf, tnow, itemStartAt, thint>>
  /\ UNCHANGED wvars

\* a pointer click on the page (React: on the click-capture element the
\* mounted component renders)
Click ==
  /\ activations < MaxActivations
  /\ mounted
  /\ TQuiescent
  /\ HandleActivation(FALSE)

\* a Space or Enter key press
KeySpaceEnter ==
  /\ activations < MaxActivations
  /\ mounted
  /\ TQuiescent
  /\ HandleActivation(TRUE)

\* any other key: the handlers test e.code and do nothing
OtherKey ==
  /\ TQuiescent
  /\ UNCHANGED vars

\* React: the ContentReveal component unmounts. The cleanup of the hint effect
\* clears the 2500 ms timer, the cleanup of the keydown effect removes the
\* handler; the panel, its items and the hint leave the page with the
\* component. The primary view belongs to App and stays.
TUnmount ==
  /\ timpl = "react"
  /\ mounted
  /\ TQuiescent
  /\ mounted' = FALSE
  /\ listening' = KeydownCleanup(listening)
  /\ ttimers' = {t \in ttimers : t.kind = "mainEnd"}
  /\ showHint' = FALSE
  /\ capturedHint' = FALSE
  /\ overlayVisible' = FALSE
  /\ UNCHANGED <<timpl, itemCount, missing, tnow, tnextId, isRevealed,
                 animationInProgress, hintVisible, mainOpacity, itemOpacity,
                 isContentRevealed, texception, tstarts, thint, thist>>
  /\ UNCHANGED wvars

\* ------------------------------------------------------ toggle: time passes
TTick ==
  /\ ttimers # {}
  /\ TQuiescent
  /\ tnow' = Min(TMinAt, TNextGrid)
  /\ UNCHANGED <<tconf, ttimers, tnextId, isRevealed, animationInProgress, listening,
                 showHint, capturedHint, hintVisible, tview, isContentRevealed,
                 texception, mainStartAt, panelAt, itemStartAt, thint, thist>>
  /\ UNCHANGED wvars

\* ------------------------------------------------- toggle: timed callbacks
\* class-based init(): setupInteraction() and showTapHint(), 2500 ms after construction
TFireEnable ==
  /\ ~TQuiescent
  /\ TNextTimer.kind = "enable"
  /\ ttimers' = ttimers \ {TNextTimer}
  /\ listening' = listening + 1
  /\ hintVisible' = ShowTapHint
  /\ hintTimerAt' = tnow
  /\ hintTimerOk' = (hintVisible' <=> ~isRevealed)
  /\ UNCHANGED <<tconf, tnow, tnextId, isRevealed, animationInProgress, showHint,
                 capturedHint, tview, isContentRevealed, texception, tstarts, thist>>
  /\ UNCHANGED wvars

\* React: the hint timer, setShowHint(true)
TFireHint ==
  /\ ~TQuiescent
  /\ TNextTimer.kind = "hint"
  /\ ttimers' = ttimers \ {TNextTimer}
  /\ showHint' = TRUE
  /\ hintTimerAt' = tnow
  /\ hintTimerOk' = (HintRendered(TRUE, isRevealed) <=> ~isRevealed)
  /\ UNCHANGED <<tconf, tnow, tnextId, isRevealed, animationInProgress, listening,
                 capturedHint, hintVisible, tview, isContentRevealed, texception,
                 tstarts, thist>>
  /\ UNCHANGED wvars

\* the panel becomes visible; the vanilla controller goes on to animateContentIn().
\* Without the panel element, this.overlay.classList throws.
TFireShowOverlay ==
  /\ ~TQuiescent
  /\ TNextTimer.kind = "showOverlay"
  /\ IF missing = "overlay"
     THEN /\ texception' = TRUE
          /\ ttimers' = ttimers \ {TNextTimer}
          /\ UNCHANGED <<overlayVisible, panelAt, tnextId>>
     ELSE /\ overlayVisible' = TRUE
          /\ panelAt' = tnow
          /\ UNCHANGED texception
          /\ IF timpl = "vanilla"
             THEN /\ ttimers' = (ttimers \ {TNextTimer})
                       \cup ItemTimers(tnextId, 1)
                       \cup {TT(tnextId + (2 * itemCount), tnow + ContentInDone,
                                "done", -1, 1)}
                  /\ tnextId' = tnextId + (2 * itemCount) + 1
             ELSE /\ ttimers' = ttimers \ {TNextTimer}
                  /\ UNCHANGED tnextId
  /\ UNCHANGED <<tconf, tnow, isRevealed, animationInProgress, listening, showHint,
                 capturedHint, hintVisible, mainOpacity, itemOpacity, isContentRevealed,
                 mainStartAt, itemStartAt, thint, thist>>
  /\ UNCHANGED wvars

\* gsap animateContentIn(): fromTo renders the from-values at once, then each
\* item's tween runs after its delay.  Without the panel element,
\* this.overlay.querySelectorAll throws.
TFireContentIn ==
  /\ ~TQuiescent
  /\ TNextTimer.kind = "contentIn"
  /\ IF missing = "overlay"
     THEN /\ texception' = TRUE
          /\ ttimers' = ttimers \ {TNextTimer}
          /\ UNCHANGED <<itemOpacity, tnextId>>
     ELSE /\ itemOpacity' = [i \in Items |-> 0]
          /\ ttimers' = (ttimers \ {TNextTimer}) \cup ItemTimers(tnextId, 1)
          /\ tnextId' = tnextId + (2 * itemCount)
          /\ UNCHANGED texception
  /\ UNCHANGED <<tconf, tnow, isRevealed, animationInProgress, listening, showHint,
                 capturedHint, hintVisible, mainOpacity, overlayVisible,
                 isContentRevealed, tstarts, thint, thist>>
  /\ UNCHANGED wvars

\* gsap: the timeline's onComplete.  When a callback of the timeline threw in
\* the tick that reaches the timeline's end, whether onComplete still runs is
\* left open.
TFireComplete ==
  /\ ~TQuiescent
  /\ TNextTimer.kind = "tlComplete"
  /\ ttimers' = ttimers \ {TNextTimer}
  /\ animationInProgress' \in (IF texception THEN {FALSE, TRUE} ELSE {FALSE})
  /\ UNCHANGED <<tconf, tnow, tnextId, isRevealed, listening, showHint, capturedHint,
                 hintVisible, tview, isContentRevealed, texception, tstarts, thint,
                 thist>>
  /\ UNCHANGED wvars

\* vanilla: the timer set by animateContentIn()
TFireDone ==
  /\ ~TQuiescent
  /\ TNextTimer.kind = "done"
  /\ ttimers' = ttimers \ {TNextTimer}
  /\ animationInProgress' = FALSE
  /\ UNCHANGED <<tconf, tnow, tnextId, isRevealed, listening, showHint, capturedHint,
                 hintVisible, tview, isContentRevealed, texception, tstarts, thint,
                 thist>>
  /\ UNCHANGED wvars

\* the panel is hidden.  vanilla: the same callback starts the primary view's
\* restore (this.main.animate throws without the element), shows the hint and
\* clears the guard.  gsap: the timeline's tween of the primary view, placed at
\* the same position 0.4, starts.
TFireHideOverlay ==
  /\ ~TQuiescent
  /\ TNextTimer.kind = "hideOverlay"
  /\ overlayVisible' = FALSE
  /\ panelAt' = tnow
  /\ IF timpl = "vanilla"
     THEN IF missing = "main"
          THEN /\ texception' = TRUE
               /\ ttimers' = ttimers \ {TNextTimer}
               /\ UNCHANGED <<tnextId, hintVisible, animationInProgress, mainStartAt>>
          ELSE /\ ttimers' = (ttimers \ {TNextTimer})
                               \cup {TT(tnextId, tnow + MainDuration, "mainEnd", -1, 1)}
               /\ tnextId' = tnextId + 1
               /\ mainStartAt' = tnow
               /\ hintVisible' = ShowTapHint
               /\ animationInProgress' = FALSE
               /\ UNCHANGED texception
     ELSE /\ ttimers' = ttimers \ {TNextTimer}
          /\ mainStartAt' = IF missing = "main" THEN mainStartAt ELSE tnow
          /\ UNCHANGED <<tnextId, hintVisible, animationInProgress, texception>>
  /\ UNCHANGED <<tconf, tnow, isRevealed, listening, showHint, capturedHint,
                 mainOpacity, itemOpacity, isContentRevealed, itemStartAt, thint, thist>>
  /\ UNCHANGED wvars

\* gsap: showTapHint() at 0.6 s of the hide timeline
TFireShowHint ==
  /\ ~TQuiescent
  /\ TNextTimer.kind = "showHint"
  /\ ttimers' = ttimers \ {TNextTimer}
  /\ hintVisible' = ShowTapHint
  /\ UNCHANGED <<tconf, tnow, tnextId, isRevealed, animationInProgress, listening,
                 showHint, capturedHint, tview, isContentRevealed, texception, tstarts,
                 thint, thist>>
  /\ UNCHANGED wvars

\* an animation of the primary view ends at its target (a gsap tween of a
\* null target has nothing to set)
TFireMainEnd ==
  /\ ~TQuiescent
  /\ TNextTimer.kind = "mainEnd"
  /\ ttimers' = ttimers \ {TNextTimer}
  /\ mainOpacity' = IF missing = "main" THEN mainOpacity ELSE TNextTimer.to
  /\ UNCHANGED <<tconf, tnow, tnextId, isRevealed, animationInProgress, listening,
                 showHint, capturedHint, hintVisible, overlayVisible, itemOpacity,
                 isContentRevealed, texception, tstarts, thint, thist>>
  /\ UNCHANGED wvars

\* an animation of a list item starts once its delay has passed
TFireItemStart ==
  /\ ~TQuiescent
  /\ TNextTimer.kind = "itemStart"
  /\ ttimers' = ttimers \ {TNextTimer}
  /\ itemStartAt' = [itemStartAt EXCEPT ![TNextTimer.idx] = tnow]
  /\ UNCHANGED <<tconf, tnow, tnextId, isRevealed, animationInProgress, listening,
                 showHint, capturedHint, hintVisible, tview, isContentRevealed,
                 texception, mainStartAt, panelAt, thint, thist>>
  /\ UNCHANGED wvars

\* an animation of a list item ends at its target
TFireItemEnd ==
  /\ ~TQuiescent
  /\ TNextTimer.kind = "itemEnd"
  /\ ttimers' = ttimers \ {TNextTimer}
  /\ itemOpacity' = [itemOpacity EXCEPT ![TNextTimer.idx] = TNextTimer.to]
  /\ UNCHANGED <<tconf, tnow, tnextId, isRevealed, animationInProgress, listening,
                 showHint, capturedHint, hintVisible, mainOpacity, overlayVisible,
                 isContentRevealed, texception, tstarts, thint, thist>>
  /\ UNCHANGED wvars

\* React: the panel's enter animation ends, or its exit animation ends and
\* AnimatePresence removes the panel with its items
TFireOverlayEnd ==
  /\ ~TQuiescent
  /\ TNextTimer.kind = "overlayEnd"
  /\ ttimers' = ttimers \ {TNextTimer}
  /\ IF TNextTimer.to = 0
     THEN /\ overlayVisible' = FALSE
          /\ panelAt' = tnow
          /\ itemOpacity' = [i \in Items |-> 0]
     ELSE UNCHANGED <<overlayVisible, panelAt, itemOpacity>>
  /\ UNCHANGED <<tconf, tnow, tnextId, isRevealed, animationInProgress, listening,
                 showHint, capturedHint, hintVisible, mainOpacity, isContentRevealed,
                 texception, mainStartAt, itemStartAt, thint, thist>>
  /\ UNCHANGED wvars

TNext ==
  \/ TTick
  \/ Click
  \/ KeySpaceEnter
  \/ OtherKey
  \/ TFireEnable
  \/ TFireHint
  \/ TFireShowOverlay
  \/ TFireContentIn
  \/ TFireComplete
  \/ TFireDone
  \/ TFireHideOverlay
  \/ TFireShowHint
  \/ TFireMainEnd
  \/ TFireItemStart
  \/ TFireItemEnd
  \/ TFireOverlayEnd
  \/ TUnmount

\* the toggle on its own, next to a mounted React wordmark that is left alone
InitToggle == TInit /\ WInit /\ impl = "react" /\ textLen = 1 /\ reducedMotion = FALSE

SpecToggle == InitToggle /\ [][TNext]_vars

\* the event loop of the page: a due callback is run, and time reaches the next
\* pending callback; nothing obliges the user to click or to press a key
TLoop ==
  \/ TTick
  \/ TFireEnable
  \/ TFireHint
  \/ TFireShowOverlay
  \/ TFireContentIn
  \/ TFireComplete
  \/ TFireDone
  \/ TFireHideOverlay
  \/ TFireShowHint
  \/ TFireMainEnd
  \/ TFireItemStart
  \/ TFireItemEnd
  \/ TFireOverlayEnd

\* the toggle with every element present, for as long as the page view lives
InitToggleLive == InitToggle /\ missing = "none"

TNextLive ==
  \/ Click
  \/ KeySpaceEnter
  \/ OtherKey
  \/ TLoop

SpecToggleFair == InitToggleLive /\ [][TNextLive]_vars /\ WF_vars(TLoop)

\* ====================================================== wordmark: the claims

\* C1: with text of length N >= 1, the default configuration and no replay,
\* the reveal animation of character i starts exactly 300 + i*150 ms after
\* construction / mount, for every i, and starts exactly once.
C1_RevealAtSchedule ==
  (replays = 0 /\ effectRuns = 0 /\ textLen >= 1 /\ Quiescent) =>
    \A i \in Indices :
      IF now >= 300 + (i * 150)
      THEN startCount[i] = 1 /\ startAt[i] = 300 + (i * 150)
      ELSE startCount[i] = 0

\* C2 (as stated): with no replay the caret is before index 0 for t < 300,
\* after index i for 300 + i*150 <= t < 300 + (i+1)*150, after the last index
\* until retirement, and retired for every t >= totalDuration + 1000.
C2_CaretSchedule ==
  (replays = 0 /\ effectRuns = 0 /\ textLen >= 1 /\ Quiescent) =>
    CaretView =
      IF now < 300 THEN BeforeFirst
      ELSE IF now >= (300 + (textLen * 150) + 500) + 1000 THEN RetiredCaret
      ELSE After(Min((now - 300) \div 150, textLen - 1))

\* C2 (amended): as C2, except that for t < 300 the caret is before index 0
\* only in the React component; in the class-based sequencers it is still
\* hidden (opacity 0) until animate() runs at t = 300.
C2_CaretScheduleAmended ==
  (replays = 0 /\ effectRuns = 0 /\ textLen >= 1 /\ Quiescent) =>
    CaretView =
      IF now < 300 THEN (IF impl = "react" THEN BeforeFirst ELSE HiddenCaret)
      ELSE IF now >= (300 + (textLen * 150) + 500) + 1000 THEN RetiredCaret
      ELSE After(Min((now - 300) \div 150, textLen - 1))

C2_Witness ==
  /\ replays = 0 /\ effectRuns = 0 /\ textLen = 2 /\ Quiescent
  /\ impl = "vanilla" /\ now >= 450 /\ CaretView = After(1)

\* C5: after replay() at any instant, at most one reveal schedule is active:
\* at most one pending reveal timer per character index, and animate() runs
\* once per replay, never twice.
C5_SingleSchedule ==
  replays >= 1 =>
    /\ animateRuns <= 1
    /\ \A i \in Indices :
         Cardinality({t \in timers : t.kind = "reveal" /\ t.idx = i}) <= 1

\* C6: after replay() at time r every character stays in the initial visual
\* state until its new reveal time r + initialDelay + i*staggerDelay, and no
\* callback scheduled before r changes a character's visual state, the caret
\* position or the caret visibility after r.
C6_NoLeakAfterReplay ==
  replays >= 1 =>
    /\ ~staleEffect
    /\ \A i \in Indices :
         now < lastReplayAt + InitialDelay + (i * StaggerDelay)
           => charState[i] = "hidden"

\* C7: with empty text no character animation is scheduled, the caret never
\* shows, and no exception is raised.
C7_EmptyTextInert ==
  textLen = 0 =>
    /\ ~exception
    /\ {t \in timers : t.kind = "reveal"} = {}
    /\ CaretView \in {NoCaret, HiddenCaret}

\* C9 (as stated): with no replay the caret retires exactly 1000 ms after the
\* final character's reveal completes, i.e. at
\* initialDelay + (N-1)*staggerDelay + charDuration + 1000, and at no other time.
C9_RetireAfterLastReveal ==
  (replays = 0 /\ effectRuns = 0 /\ textLen >= 1 /\ Quiescent) =>
    LET T == 300 + ((textLen - 1) * 150) + 500 + 1000
    IN /\ now >= T => (retireCount = 1 /\ retiredAt = T)
       /\ now < T => retireCount = 0

\* C9 (amended): with no replay and N >= 1 the caret retires exactly at
\* initialDelay + N*staggerDelay + charDuration + 1000 ms, which is
\* 1000 ms + one staggerDelay after the final character's reveal completes,
\* and at no other time.
C9_RetireAfterTotal ==
  (replays = 0 /\ effectRuns = 0 /\ textLen >= 1 /\ Quiescent) =>
    LET T == 300 + (textLen * 150) + 500 + 1000
    IN /\ now >= T => (retireCount = 1 /\ retiredAt = T)
       /\ now < T => retireCount = 0

C9_Witness ==
  /\ replays = 0 /\ effectRuns = 0 /\ textLen = 2 /\ impl = "gsap"
  /\ retireCount = 1 /\ retiredAt = 2100

C3_SecondActivationDropped ==
  (missing = "none" /\ mounted /\ lastGap >= 0 /\ lastGap < (IF gapWasExpand THEN 720 ELSE 800))
    => ~lastChanged

\* C4: the re-entrancy guard is true from the step that starts a transition,
\* and is false only when no sub-animation or callback of an expand or
\* collapse choreography is still pending or running.
C4_GuardCoversChoreography ==
  (missing = "none" /\ mounted /\ ~animationInProgress) => Choreography = {}

\* C8: round trip: from Collapsed, two accepted activations end, once every
\* timer and animation has finished, in Collapsed with the primary view at
\* opacity 1 / scale 1, the panel hidden and every list item at opacity 0.
C8_RoundTrip ==
  (missing = "none" /\ mounted /\ stateChanges = 2 /\ Choreography = {}) =>
    /\ ~isRevealed
    /\ mainOpacity = 1
    /\ ~overlayVisible
    /\ \A i \in Items : itemOpacity[i] = 0

\* C11: in the controllers that keep a guard, with every element present: on
\* an accepted expand activation at t0 (nothing of an earlier transition
\* pending), the guard is set until exactly t0 + 200 + (itemCount-1)*60 + 400 ms
\* (720 ms for three items) and clear from then on, for every item count >= 1.
C11_GuardClearsAfterExpand ==
  (missing = "none" /\ timpl # "react" /\ lastAcceptedAt >= 0 /\ lastWasExpand
     /\ cleanStart /\ TQuiescent) =>
    (animationInProgress <=>
       tnow < lastAcceptedAt + 200 + ((itemCount - 1) * 60) + 400)

\* C12: in the controllers that keep a guard, with every element present: the
\* guard stays set as long as the primary view's restore animation (to
\* opacity 1) is pending or running, so no activation is accepted meanwhile.
C12_GuardUntilRestored ==
  (missing = "none" /\ timpl # "react"
     /\ \E t \in ttimers : t.kind = "mainEnd" /\ t.to = 1) =>
    animationInProgress

\* C13: in the class-based controllers, with every element present: on an
\* accepted expand activation at t0 (nothing of an earlier transition pending)
\* the primary view starts fading at t0, the panel becomes visible at
\* t0 + 200 ms and not before, and item i starts its reveal exactly
\* 200 + i*60 ms after that, i.e. at t0 + 400 + i*60, and not before.
C13_ExpandSchedule ==
  (missing = "none" /\ timpl # "react" /\ lastAcceptedAt >= 0 /\ lastWasExpand
     /\ cleanStart /\ TQuiescent) =>
    LET t0 == lastAcceptedAt
    IN /\ mainStartAt = t0
       /\ IF tnow >= t0 + 200 THEN overlayVisible /\ panelAt = t0 + 200
          ELSE ~overlayVisible
       /\ \A i \in Items :
            IF tnow >= t0 + 400 + (i * 60)
            THEN itemStartAt[i] = t0 + 400 + (i * 60)
            ELSE itemStartAt[i] < t0

\* C14: with every element present: on an accepted collapse activation at t0
\* (nothing of an earlier transition pending) item i starts its retreat at
\* t0 + i*20 ms, the panel is hidden at t0 + 400 ms and not before, and the
\* primary view starts its restore animation at t0 + 400 ms and not before.
C14_CollapseSchedule ==
  (missing = "none" /\ mounted /\ lastAcceptedAt >= 0 /\ ~lastWasExpand /\ cleanStart
     /\ TQuiescent) =>
    LET t0 == lastAcceptedAt
    IN /\ \A i \in Items :
            IF tnow >= t0 + (i * 20)
            THEN itemStartAt[i] = t0 + (i * 20)
            ELSE itemStartAt[i] < t0
       /\ IF tnow >= t0 + 400 THEN ~overlayVisible /\ panelAt = t0 + 400
          ELSE overlayVisible
       /\ IF tnow >= t0 + 400 THEN mainStartAt = t0 + 400
          ELSE mainStartAt < t0

\* C15: with every element present and the 2500 ms timer fired: whenever the
\* toggle is back in Collapsed after having been Expanded and the collapse has
\* completed, the Hint Indicator is visible again.
C15_HintRearmed ==
  (missing = "none" /\ mounted /\ hintTimerAt >= 0 /\ stateChanges >= 2 /\ ~isRevealed
     /\ Choreography = {}) =>
    HintShown

\* C16: with every element present: after the first accepted activation the
\* Hint Indicator is not visible, in every later state.
C16_HintSilenced ==
  (missing = "none" /\ mounted /\ stateChanges >= 1) => ~HintShown

\* C17: with every element present: the Hint Indicator is never visible
\* earlier than 2500 ms after mount; the timer's callback runs at 2500 ms,
\* and right after it the hint is visible if and only if the toggle is
\* Collapsed.
C17_HintAtDelay ==
  (missing = "none" /\ mounted) =>
    /\ tnow < 2500 => ~HintShown
    /\ hintTimerAt >= 0 => (hintTimerAt = 2500 /\ hintTimerOk)
    /\ tnow > 2500 => hintTimerAt >= 0

C17_Witness ==
  /\ timpl = "react" /\ tnow = 2500 /\ hintTimerAt = 2500
  /\ isRevealed /\ showHint /\ ~HintShown

\* C18: a Space or Enter key press is the same operation as a click: every
\* key-press step is also a click step (same guard, same successor values of
\* DisclosureState, guard and hint); any other key leaves the toggle unchanged.
C18_KeyIsClick ==
  [][(KeySpaceEnter => Click) /\ (OtherKey => UNCHANGED tvars)]_vars

\* C19: when the panel, the primary view or the hint element is absent at
\* construction, no handler or callback throws, and the controller is never
\* left with the guard set and nothing pending that could clear it.
C19_MissingElementNoOp ==
  missing # "none" =>
    /\ ~texception
    /\ ~(animationInProgress /\ ttimers = {})

\* C20: React: onToggle is called at every change of isRevealed with the new
\* value, so App's isContentRevealed always equals isRevealed, and once the
\* animations are over the primary view is hidden exactly when Expanded.
C20_AppFollowsToggle ==
  timpl = "react" =>
    /\ isContentRevealed = isRevealed
    /\ Choreography = {} => mainOpacity = (IF isRevealed THEN 0 ELSE 1)

C20_Witness ==
  /\ timpl = "react" /\ mounted /\ stateChanges = 3 /\ Choreography = {}
  /\ isRevealed /\ isContentRevealed /\ mainOpacity = 0

\* ================================================ wordmark: replay and re-run
\* C21: after replay() calls everything the earlier run scheduled is cancelled:
\* at most one blink animation is active, and the pending timers never exceed
\* those of a single run (the blink start, one reveal per character, the two
\* entries of the caret's hide)
C21_ReplayCancelsAll ==
  (impl # "react" /\ replays >= 1)
    => (Cardinality(blinks) <= 1 /\ Cardinality(timers) <= textLen + 3)

\* C22: within one run (from mount, the last replay() or the last effect run)
\* the caret's index never decreases and reveals start in increasing index order
C22_CaretNeverBack == ~orderBroken

\* C23: the page never shows more than one caret, and shows none once the
\* caret has retired and nothing is pending any more
C23_OneCaret ==
  /\ VisibleCarets <= 1
  /\ (CaretView = RetiredCaret /\ timers = {}) => (VisibleCarets = 0)

\* C24: React: once the effect has run again for a text of another length, no
\* timer of the earlier run performs a caret or completion update
C24_NoStaleEffectUpdate ==
  (impl = "react" /\ effectRuns >= 1) => ~staleEffect

\* ================================================== wordmark: configuration
\* C26: every timing option is honoured, the value 0 included: character i is
\* revealed once, at the configured initialDelay + i * staggerDelay, by an
\* animation of the configured charDuration (each in the sequencer's own unit;
\* the default where the option is not given)
C26_ZeroHonoured ==
  (impl # "react" /\ textLen >= 1 /\ Quiescent) =>
    \A i \in Indices :
      LET askedInitial == IF options.initialDelay = Absent THEN InitialDelay
                          ELSE options.initialDelay * UnitMs
          askedStagger == IF options.staggerDelay = Absent THEN StaggerDelay
                          ELSE options.staggerDelay * UnitMs
          askedDuration == IF options.charDuration = Absent THEN CharDuration
                           ELSE options.charDuration * UnitMs
          due == askedInitial + (i * askedStagger)
      IN  /\ startCount[i] <= 1
          /\ (now > due) => (startCount[i] = 1)
          /\ (startCount[i] = 1) => (startAt[i] = due /\ charRunFor[i] = askedDuration)

\* C27: with prefers-reduced-motion set every delay collapses to effectively 0:
\* each character is revealed, and the caret retired, within the first frame
C27_ReducedMotionCollapses ==
  reducedMotion =>
    /\ \A i \in Indices : startAt[i] <= 17
    /\ retiredAt <= 17

\* C29: vanilla-animation.js given staggerDelay: 100 and charDuration: 400:
\* consecutive reveals are 100 ms apart and each reveal runs for 400 ms
C29_OptionsInMs ==
  (impl = "gsap" /\ options.staggerDelay = FasterStagger
     /\ options.charDuration = FasterDuration) =>
    /\ \A i \in Indices : charRunFor[i] \in {-1, FasterDuration}
    /\ \A i \in Indices, j \in Indices :
         (j = i + 1 /\ startCount[i] >= 1 /\ startCount[j] >= 1)
           => (startAt[j] - startAt[i] = FasterStagger)

\* C28: non-empty text, no replay(): eventually every character is revealed and
\* the caret retired, with no timer and no blink left, for good; and in that
\* state nothing of the sequencer changes any more
C28_EventuallyInert ==
  /\ (textLen >= 1) =>
       <>[](/\ timers = {}
            /\ blinks = {}
            /\ \A i \in Indices : charState[i] = "revealed"
            /\ CaretView = RetiredCaret
            /\ VisibleCarets = 0)
  /\ [][(timers = {} /\ CaretView = RetiredCaret) => UNCHANGED wvars]_vars

C28_Witness ==
  /\ textLen = MaxLen
  /\ impl = "vanilla"
  /\ timers = {}
  /\ blinks = {}
  /\ blinkAnimation > 0
  /\ \A i \in Indices : charState[i] = "revealed"
  /\ CaretView = RetiredCaret

\* ============================================ toggle: the two class-based variants
\* C25: the framework-free and the GSAP controller accept and drop the same
\* activations: an activation that follows an accepted one is accepted by the
\* running controller exactly when the other controller, whose guard was set
\* by the same accepted activation, has cleared its guard by then
C25_SameAcceptance ==
  (missing = "none" /\ timpl # "react" /\ lastGap >= 0) =>
    (lastChanged <=>
       lastGap >= GuardClearsAfter(IF timpl = "vanilla" THEN "gsap" ELSE "vanilla",
                                   gapWasExpand))

\* C30: while the toggle is Expanded the Hint Indicator is not on screen, and
\* no pending callback is about to show it
C30_NoHintWhileExpanded ==
  isRevealed =>
    /\ ~HintShown
    /\ \A t \in ttimers :
         /\ t.kind \notin {"showHint", "enable"}
         /\ ~(timpl = "vanilla" /\ t.kind = "hideOverlay")

C30_Witness ==
  /\ timpl = "gsap"
  /\ missing = "none"
  /\ isRevealed
  /\ hintTimerAt >= 0
  /\ stateChanges = 3

\* ===================================================== toggle: liveness, set-up
\* C31: with every element present and every scheduled callback eventually
\* run, an activation that set the re-entrancy guard is eventually followed by
\* a state in which the guard is false
C31_GuardEventuallyClear ==
  [](animationInProgress => <>(~animationInProgress))

C31_Witness ==
  /\ timpl = "vanilla"
  /\ missing = "none"
  /\ stateChanges = 2
  /\ ~animationInProgress
  /\ ttimers = {}

\* C32: class-based controllers: the listeners are registered once, by the
\* 2500 ms timer; before that no click or key press changes anything and the
\* toggle is Collapsed
C32_EnabledAfterDelay ==
  (timpl # "react") =>
    /\ listening <= 1
    /\ (tnow < HintDelay) => (listening = 0 /\ ~isRevealed /\ stateChanges = 0)
    /\ (hintTimerAt >= 0) => (listening = 1 /\ hintTimerAt = HintDelay)
    /\ (tnow > HintDelay) => (listening = 1)

C32_Witness ==
  /\ timpl = "gsap"
  /\ tnow < HintDelay
  /\ activations = 2
  /\ ~lastChanged
  /\ ~isRevealed

\* C33: React: at most one keydown handler of the component is registered, one
\* while it is mounted and none after it has unmounted, and after the unmount
\* the hint timer is not pending
C33_OneKeydownHandler ==
  (timpl = "react") =>
    /\ listening <= 1
    /\ mounted => (listening = 1)
    /\ (~mounted) => (listening = 0 /\ \A t \in ttimers : t.kind # "hint")

C33_Witness ==
  /\ timpl = "react"
  /\ ~mounted
  /\ stateChanges = 2
  /\ hintTimerAt = -1
  /\ listening = 0
====
